---- MODULE Spec2Model ----
(***************************************************************************)
(* Model of n64_sram_converter.py: main() and convert_sram_save() as a     *)
(* sequential program over a small file system, and the pure function      *)
(* detect_game_from_save().                                                *)
(*                                                                         *)
(* A Python bytes object is held run-length encoded: a sequence of runs    *)
(* [b |-> byte, n |-> count] with n > 0 and no two adjacent runs of the    *)
(* same byte.  The encoding is one-to-one, so equality of encodings is     *)
(* equality of byte strings, and the program's sizes (131072, 0x8000,      *)
(* 1024) are kept as they are in the source.                               *)
(***************************************************************************)
EXTENDS Integers, Sequences, FiniteSets, TLC

(***************************************************************************)
(* Byte strings                                                            *)
(***************************************************************************)
Min(a, b) == IF a < b THEN a ELSE b

\* b repeated n times
Rep(b, n) == IF n <= 0 THEN << >> ELSE << [b |-> b, n |-> n] >>

\* concatenation of two byte strings, merging the runs that meet
Cat(x, y) ==
    IF x = << >> THEN y
    ELSE IF y = << >> THEN x
    ELSE IF x[Len(x)].b = y[1].b
         THEN SubSeq(x, 1, Len(x) - 1)
              \o << [b |-> y[1].b, n |-> x[Len(x)].n + y[1].n] >>
              \o Tail(y)
         ELSE x \o y

\* the byte string of an explicit sequence of bytes
RECURSIVE FromSeq(_)
FromSeq(s) == IF s = << >> THEN << >> ELSE Cat(Rep(Head(s), 1), FromSeq(Tail(s)))

\* len(x)
RECURSIVE BLen(_)
BLen(x) == IF x = << >> THEN 0 ELSE Head(x).n + BLen(Tail(x))

\* x[0:k]
RECURSIVE Take(_, _)
Take(x, k) ==
    IF x = << >> \/ k <= 0 THEN << >>
    ELSE IF Head(x).n <= k THEN << Head(x) >> \o Take(Tail(x), k - Head(x).n)
    ELSE << [b |-> Head(x).b, n |-> k] >>

\* x[k:]
RECURSIVE Drop(_, _)
Drop(x, k) ==
    IF x = << >> \/ k <= 0 THEN x
    ELSE IF Head(x).n <= k THEN Drop(Tail(x), k - Head(x).n)
    ELSE << [b |-> Head(x).b, n |-> Head(x).n - k] >> \o Tail(x)

\* the bytes of x as a sequence (used on windows of at most 1024 bytes)
RECURSIVE Expand(_)
Expand(x) ==
    IF x = << >> THEN << >>
    ELSE [i \in 1..Head(x).n |-> Head(x).b] \o Expand(Tail(x))

\* sum(1 for b in x if b != 0)
RECURSIVE CountNonZero(_)
CountNonZero(x) ==
    IF x = << >> THEN 0
    ELSE (IF Head(x).b # 0 THEN Head(x).n ELSE 0) + CountNonZero(Tail(x))

\* marker in window   (bytes.__contains__: contiguous substring search)
Contains(marker, window) ==
    \E i \in 0..(Len(window) - Len(marker)) :
        SubSeq(window, i + 1, i + Len(marker)) = marker

(***************************************************************************)
(* detect_game_from_save                                                   *)
(***************************************************************************)
ZELDAZ == << 90, 69, 76, 68, 65, 90 >>
MARIO  == << 18, 52, 86, 120 >>
ZeldaLabel == "The Legend of Zelda: Ocarina of Time"
GolfLabel  == "Mario Golf 64"
None == "None"

\* the dict literal, in insertion order
markers == << [marker |-> ZELDAZ, game_name |-> ZeldaLabel],
              [marker |-> MARIO,  game_name |-> GolfLabel] >>

ScanWindow == 1024

RECURSIVE FirstMatch(_, _)
FirstMatch(ms, window) ==
    IF ms = << >> THEN None
    ELSE IF Contains(Head(ms).marker, window) THEN Head(ms).game_name
    ELSE FirstMatch(Tail(ms), window)

\* the scan reaching one byte past the window
detect_past_window(data) == FirstMatch(markers, Expand(Take(data, ScanWindow + 1)))

detect_game_from_save(data) == FirstMatch(markers, Expand(Take(data, ScanWindow)))

(***************************************************************************)
(* pathlib.Path: a path is its directory components and the characters of  *)
(* its final component                                                     *)
(***************************************************************************)
Chars(dir, name) == [dir |-> dir, name |-> name]

\* str.rfind('.') as a 1-based index, 0 when there is no dot
RFindDot(name) ==
    IF \E i \in 1..Len(name) : name[i] = "."
    THEN CHOOSE i \in 1..Len(name) :
            /\ name[i] = "."
            /\ \A j \in (i + 1)..Len(name) : name[j] # "."
    ELSE 0

\* PurePath.suffix: the last dot and what follows it, unless that dot is the
\* first or the last character of the name
PathSuffix(name) ==
    LET i == RFindDot(name)
    IN  IF 1 < i /\ i < Len(name) THEN SubSeq(name, i, Len(name)) ELSE << >>

\* the suffix appended without removing the old one
append_suffix(path, suffix) == [path EXCEPT !.name = path.name \o suffix]

\* PurePath.with_suffix
with_suffix(path, suffix) ==
    LET old == PathSuffix(path.name)
    IN  [path EXCEPT !.name =
            IF old = << >> THEN path.name \o suffix
            ELSE SubSeq(path.name, 1, Len(path.name) - Len(old)) \o suffix]

SavSuffix == << ".", "s", "a", "v" >>

(***************************************************************************)
(* convert_sram_save: the pure steps                                       *)
(***************************************************************************)
DumpSize  == 131072
sram_size == 32768

LowerChar(c) ==
    CASE c = "Y" -> "y"
      [] c = "N" -> "n"
      [] c = "E" -> "e"
      [] c = "S" -> "s"
      [] OTHER   -> c

\* str.lower
Lower(s) == [i \in 1..Len(s) |-> LowerChar(s[i])]

\* file_size != 131072
SizeMismatch(size) == size # DumpSize

\* any answer that begins with 'y' taken as consent
DeclinedUnlessPrefix(resp) == resp = << >> \/ resp[1] # "y"

\* response != 'y'
Declined(resp) == resp # << "y" >>

\* the slice taken from the end of the dump: data[-sram_size:]
ExtractLast(bytes) == Drop(bytes, BLen(bytes) - sram_size)

\* data[0:sram_size]
Extract(bytes) == Take(bytes, sram_size)

\* only an empty slice treated as a failure
ExtractFailedIfEmpty(bytes) == BLen(bytes) = 0

\* len(save_data) != sram_size
ExtractFailed(bytes) == BLen(bytes) # sram_size

\* the ratio left as a fraction of 1
PercentageUnscaled(count, length) == [num |-> count, den |-> length]

\* (non_zero / len(save_data)) * 100, as an exact fraction: the division by
\* 32768 and the product by 100 are both exact in binary floating point
Percentage(count, length) == [num |-> count * 100, den |-> length]

\* non_zero == 0
LooksEmpty(count) == count = 0

\* output_file is None -> input_path.with_suffix('.sav'), else Path(output_file)
OutputPath(input, output) ==
    IF output = << >> THEN with_suffix(input, SavSuffix) ELSE output[1]

\* the result ignored
ExitStatusAlwaysZero(ok) == 0

\* sys.exit(0 if success else 1)
ExitStatus(ok) == IF ok = "True" THEN 0 ELSE 1

(***************************************************************************)
(* The inputs                                                              *)
(***************************************************************************)
Slack == 1

Lengths ==
    (0..Slack)
    \cup ((sram_size - Slack)..(sram_size + Slack))
    \cup {2 * sram_size}
    \cup ((DumpSize - Slack)..(DumpSize + Slack))

Heads     == { << >>, ZELDAZ, MARIO }
FillBytes == { 0, 7 }
TailBytes == { 0, 255 }

\* head, then fill up to the SRAM size, then tail, cut to length
Content(length, head, fill, tailb) ==
    Take(Cat(Cat(FromSeq(head), Rep(fill, sram_size - Len(head))),
             Rep(tailb, DumpSize)),
         length)

Contents ==
    { Content(l, h, f, t) : l \in Lengths, h \in Heads, f \in FillBytes, t \in TailBytes }

Names == { << "g", ".", "r", "a", "m" >>,
           << "g", ".", "s", "a", "v" >>,
           << "g" >>,
           << ".", "r", "a", "m" >>,
           << "g", ".", "a", ".", "f", "l", "a" >> }
Dirs  == { << >>, << "d.x" >> }

InPaths  == { Chars(d, n) : d \in Dirs, n \in Names }
OutPaths == { Chars(<< >>, << "o", ".", "b", "i", "n" >>) }
Script   == Chars(<< >>, << "n", "6", "4", ".", "p", "y" >>)
Paths    == InPaths \cup OutPaths \cup { with_suffix(p, SavSuffix) : p \in InPaths }

Responses == { << "y" >>, << "Y" >>, << "n" >>, << >>,
               << "y", "e", "s" >>, << "Y", "E", "S" >>, << " ", "y" >> }

NoFile     == [exists |-> FALSE, bytes |-> << >>]
File(x)    == [exists |-> TRUE, bytes |-> x]
StaleBytes == Rep(9, 5)

(***************************************************************************)
(* The program                                                             *)
(***************************************************************************)
VARIABLES
    pc,               \* position in main / convert_sram_save
    sys_argv,         \* sys.argv
    fs,               \* the file system: path -> file
    fs0,              \* the file system before the run
    input_file,       \* locals of convert_sram_save
    output_file,      \*   << >> for None, << path >> otherwise
    data,
    file_size,
    answer,           \*   what input() returned
    response,         \*   answer.lower()
    save_data,
    non_zero,
    data_percentage,
    empty_warning,    \*   "appears to be empty" was printed
    detected_game,
    out_path,         \*   output_file after line 89-92
    success,          \* local of main: "None" until convert_sram_save returns
    exit_code,        \* the process's exit status, -1 while running
    prompts,          \* number of input() calls
    opens             \* number of open(output_file, 'wb') calls

locals == << input_file, output_file, data, file_size, answer, response, save_data,
             non_zero, data_percentage, empty_warning, detected_game, out_path >>
vars == << pc, sys_argv, fs, fs0, locals, success, exit_code, prompts, opens >>

InitLocals ==
    /\ input_file = Script
    /\ output_file = << >>
    /\ data = << >>
    /\ file_size = -1
    /\ answer = << >>
    /\ response = << >>
    /\ non_zero = -1
    /\ data_percentage = Percentage(0, 1)
    /\ empty_warning = FALSE
    /\ detected_game = None
    /\ out_path = Script
    /\ success = "None"
    /\ exit_code = -1
    /\ prompts = 0
    /\ opens = 0

Argvs ==
    { << Script >> }
    \cup { << Script, i >> : i \in InPaths }
    \cup { << Script, i, o >> : i \in InPaths, o \in OutPaths }
    \cup { << Script, i, i >> : i \in InPaths }

Init ==
    /\ pc = "main"
    /\ sys_argv \in Argvs
    /\ \E present \in BOOLEAN, stale \in BOOLEAN, x \in Contents :
          fs = [p \in Paths |->
                  IF Len(sys_argv) > 1 /\ p = sys_argv[2]
                  THEN (IF present THEN File(x) ELSE NoFile)
                  ELSE (IF stale THEN File(StaleBytes) ELSE NoFile)]
    /\ fs0 = fs
    /\ save_data = << >>
    /\ InitLocals

\* main, lines 132-164: no input path
Usage ==
    /\ pc = "main"
    /\ Len(sys_argv) < 2
    /\ exit_code' = 1
    /\ pc' = "exit"
    /\ UNCHANGED << sys_argv, fs, fs0, locals, success, prompts, opens >>

\* main, lines 166-169: the call
Call ==
    /\ pc = "main"
    /\ ~(Len(sys_argv) < 2)
    /\ input_file' = sys_argv[2]
    /\ output_file' = IF Len(sys_argv) > 2 THEN << sys_argv[3] >> ELSE << >>
    /\ pc' = "exists"
    /\ UNCHANGED << sys_argv, fs, fs0, data, file_size, answer, response, save_data,
                    non_zero, data_percentage, empty_warning, detected_game, out_path,
                    success, exit_code, prompts, opens >>

\* lines 41-43
NotFound ==
    /\ pc = "exists"
    /\ ~fs[input_file].exists
    /\ success' = "False"
    /\ pc' = "return"
    /\ UNCHANGED << sys_argv, fs, fs0, locals, exit_code, prompts, opens >>

\* lines 45-50
Read ==
    /\ pc = "exists"
    /\ fs[input_file].exists
    /\ data' = fs[input_file].bytes
    /\ file_size' = BLen(data')
    /\ pc' = "size"
    /\ UNCHANGED << sys_argv, fs, fs0, input_file, output_file, answer, response,
                    save_data, non_zero, data_percentage, empty_warning, detected_game,
                    out_path, success, exit_code, prompts, opens >>

\* line 53, the size is the expected one
SizeOk ==
    /\ pc = "size"
    /\ ~SizeMismatch(file_size)
    /\ pc' = "extract"
    /\ UNCHANGED << sys_argv, fs, fs0, locals, success, exit_code, prompts, opens >>

\* lines 53-59
Confirm ==
    /\ pc = "size"
    /\ SizeMismatch(file_size)
    /\ \E r \in Responses :
          /\ answer' = r
          /\ response' = Lower(r)
    /\ prompts' = prompts + 1
    /\ IF Declined(response')
       THEN success' = "False" /\ pc' = "return"
       ELSE success' = success /\ pc' = "extract"
    /\ UNCHANGED << sys_argv, fs, fs0, input_file, output_file, data, file_size,
                    save_data, non_zero, data_percentage, empty_warning, detected_game,
                    out_path, exit_code, opens >>

\* lines 62-71
ExtractStep ==
    /\ pc = "extract"
    /\ save_data' = Extract(data)
    /\ IF ExtractFailed(save_data')
       THEN success' = "False" /\ pc' = "return"
       ELSE success' = success /\ pc' = "stats"
    /\ UNCHANGED << sys_argv, fs, fs0, input_file, output_file, data, file_size, answer,
                    response, non_zero, data_percentage, empty_warning, detected_game,
                    out_path, exit_code, prompts, opens >>

\* the empty-save warning turned into a failure
StatsRejectEmpty ==
    /\ pc = "stats"
    /\ non_zero' = CountNonZero(save_data)
    /\ data_percentage' = Percentage(non_zero', BLen(save_data))
    /\ empty_warning' = LooksEmpty(non_zero')
    /\ IF LooksEmpty(non_zero')
       THEN success' = "False" /\ pc' = "return"
       ELSE success' = success /\ pc' = "detect"
    /\ UNCHANGED << sys_argv, fs, fs0, input_file, output_file, data, file_size, answer,
                    response, save_data, detected_game, out_path, exit_code,
                    prompts, opens >>

\* lines 74-81
Stats ==
    /\ pc = "stats"
    /\ non_zero' = CountNonZero(save_data)
    /\ data_percentage' = Percentage(non_zero', BLen(save_data))
    /\ empty_warning' = LooksEmpty(non_zero')
    /\ pc' = "detect"
    /\ UNCHANGED << sys_argv, fs, fs0, input_file, output_file, data, file_size, answer,
                    response, save_data, detected_game, out_path, success, exit_code,
                    prompts, opens >>

\* lines 84-86
Detect ==
    /\ pc = "detect"
    /\ detected_game' = detect_game_from_save(save_data)
    /\ pc' = "name"
    /\ UNCHANGED << sys_argv, fs, fs0, input_file, output_file, data, file_size, answer,
                    response, save_data, non_zero, data_percentage, empty_warning,
                    out_path, success, exit_code, prompts, opens >>

\* lines 89-92
OutputName ==
    /\ pc = "name"
    /\ out_path' = OutputPath(input_file, output_file)
    /\ pc' = "open"
    /\ UNCHANGED << sys_argv, fs, fs0, input_file, output_file, data, file_size, answer,
                    response, save_data, non_zero, data_percentage, empty_warning,
                    detected_game, success, exit_code, prompts, opens >>

\* line 96: open(output_file, 'wb') creates the file or truncates it
Open ==
    /\ pc = "open"
    /\ fs' = [fs EXCEPT ![out_path] = File(<< >>)]
    /\ opens' = opens + 1
    /\ pc' = "write"
    /\ UNCHANGED << sys_argv, fs0, locals, success, exit_code, prompts >>

\* lines 97-122: f.write(save_data), the file is closed, return True
Write ==
    /\ pc = "write"
    /\ fs' = [fs EXCEPT ![out_path] = File(Cat(fs[out_path].bytes, save_data))]
    /\ success' = "True"
    /\ pc' = "return"
    /\ UNCHANGED << sys_argv, fs0, locals, exit_code, prompts, opens >>

\* line 170
Exit ==
    /\ pc = "return"
    /\ exit_code' = ExitStatus(success)
    /\ pc' = "exit"
    /\ UNCHANGED << sys_argv, fs, fs0, locals, success, prompts, opens >>

Next ==
    \/ Usage
    \/ Call
    \/ NotFound
    \/ Read
    \/ SizeOk
    \/ Confirm
    \/ ExtractStep
    \/ Stats
    \/ Detect
    \/ OutputName
    \/ Open
    \/ Write
    \/ Exit

Spec == Init /\ [][Next]_vars

(***************************************************************************)
(* The same program on a file system that can refuse: input() meets end of *)
(* file, open() fails, write() fails after part of the data.  An exception *)
(* nothing catches ends the interpreter with status 1.                     *)
(***************************************************************************)
\* line 57: input() raises EOFError
PromptEOF ==
    /\ pc = "size"
    /\ SizeMismatch(file_size)
    /\ prompts' = prompts + 1
    /\ exit_code' = 1
    /\ pc' = "exit"
    /\ UNCHANGED << sys_argv, fs, fs0, locals, success, opens >>

\* line 96: open() raises OSError, nothing is created or truncated
OpenFails ==
    /\ pc = "open"
    /\ opens' = opens + 1
    /\ exit_code' = 1
    /\ pc' = "exit"
    /\ UNCHANGED << sys_argv, fs, fs0, locals, success, prompts >>

\* line 97: write() raises OSError (disk full) after k bytes; the with
\* statement closes the file and the exception leaves the program
WriteFails ==
    /\ pc = "write"
    /\ \E k \in { 0, sram_size \div 2 } :
          fs' = [fs EXCEPT ![out_path] = File(Cat(fs[out_path].bytes, Take(save_data, k)))]
    /\ exit_code' = 1
    /\ pc' = "exit"
    /\ UNCHANGED << sys_argv, fs0, locals, success, prompts, opens >>

NextFault ==
    \/ Next
    \/ PromptEOF
    \/ OpenFails
    \/ WriteFails

SpecFault == Init /\ [][NextFault]_vars

(***************************************************************************)
(* detect_game_from_save on its own, over regions with the markers placed  *)
(* around the start and around the end of the scanned window               *)
(***************************************************************************)
Edge == 1

Offsets(m) ==
    { -1, 0 } \cup ((ScanWindow - Len(m) - Edge)..(ScanWindow + Edge))

\* seq written over x at offset off (x is long enough)
Overlay(x, off, seq) ==
    IF off < 0 THEN x
    ELSE Cat(Cat(Take(x, off), FromSeq(seq)), Drop(x, off + Len(seq)))

Apart(zo, mo) ==
    zo < 0 \/ mo < 0 \/ zo + Len(ZELDAZ) <= mo \/ mo + Len(MARIO) <= zo

InitDetect ==
    /\ pc = "classify"
    /\ sys_argv = << Script >>
    /\ fs = [p \in Paths |-> NoFile]
    /\ fs0 = fs
    /\ \E zo \in Offsets(ZELDAZ), mo \in Offsets(MARIO), f \in { 0, 90 },
          l \in { ScanWindow, sram_size } :
          /\ Apart(zo, mo)
          /\ save_data = Take(Overlay(Overlay(Rep(f, sram_size), zo, ZELDAZ), mo, MARIO), l)
    /\ InitLocals

\* detect_game_from_save(save_data)
Classify ==
    /\ pc = "classify"
    /\ detected_game' = detect_game_from_save(save_data)
    /\ pc' = "classified"
    /\ UNCHANGED << sys_argv, fs, fs0, input_file, output_file, data, file_size, answer,
                    response, save_data, non_zero, data_percentage, empty_warning,
                    out_path, success, exit_code, prompts, opens >>

NextDetect == Classify

SpecDetect == InitDetect /\ [][NextDetect]_vars

(***************************************************************************)
(* Vocabulary of the properties, defined on the bytes themselves and not   *)
(* through the operators the program's steps use                           *)
(***************************************************************************)
\* the byte at 0-based index i, for i < BLen(x)
RECURSIVE ByteAt(_, _)
ByteAt(x, i) == IF i < Head(x).n THEN Head(x).b ELSE ByteAt(Tail(x), i - Head(x).n)

\* the indices at which a run of x begins
RECURSIVE RunStarts(_, _)
RunStarts(x, base) ==
    IF x = << >> THEN {} ELSE { base } \cup RunStarts(Tail(x), base + Head(x).n)

\* x and y agree on bytes [0, n): two piecewise constant strings agree on a
\* range when they agree wherever one of them starts a run
AgreeOn(x, y, n) ==
    /\ BLen(x) >= n
    /\ BLen(y) >= n
    /\ \A i \in (RunStarts(x, 0) \cup RunStarts(y, 0)) :
          i < n => ByteAt(x, i) = ByteAt(y, i)

\* x is exactly the first n bytes of y
IsFirstBytes(x, y, n) == BLen(x) = n /\ AgreeOn(x, y, n)

\* number of bytes of x equal to b
RECURSIVE Occurrences(_, _)
Occurrences(x, b) ==
    IF x = << >> THEN 0
    ELSE (IF Head(x).b = b THEN Head(x).n ELSE 0) + Occurrences(Tail(x), b)

\* marker m lies entirely inside x[0:1024]
InWindow(m, x) ==
    \E o \in 0..(ScanWindow - Len(m)) :
        /\ o + Len(m) <= BLen(x)
        /\ \A j \in 1..Len(m) : ByteAt(x, o + j - 1) = m[j]

Yes == { << "y" >>, << "Y" >> }

HasInput   == Len(sys_argv) >= 2
InputPath  == sys_argv[2]
InputFile0 == fs0[InputPath]
WasRead    == HasInput /\ InputFile0.exists
Finished   == pc = "exit"

(***************************************************************************)
(* C1: an input of 131072 bytes is converted without a confirmation, and   *)
(* the file written is 32768 bytes long and equal, byte for byte, to bytes *)
(* [0, 32768) of the input.                                                *)
(***************************************************************************)
C1_ExactDumpConverted ==
    (Finished /\ WasRead /\ BLen(InputFile0.bytes) = DumpSize)
    => /\ success = "True"
       /\ prompts = 0
       /\ fs[out_path].exists
       /\ IsFirstBytes(fs[out_path].bytes, InputFile0.bytes, sram_size)

C1_Witness ==
    /\ Finished
    /\ WasRead
    /\ file_size = DumpSize
    /\ success = "True"
    /\ detected_game = ZeldaLabel
    /\ ByteAt(data, sram_size) = 255
    /\ ByteAt(data, sram_size - 1) = 7

(***************************************************************************)
(* C2: an input shorter than 32768 bytes, the empty file included, is      *)
(* never converted: the result is False and no file is created or written, *)
(* whatever the answer to the confirmation.                                *)
(***************************************************************************)
C2_ShortInputRejected ==
    (Finished /\ WasRead /\ BLen(InputFile0.bytes) < sram_size)
    => /\ success = "False"
       /\ opens = 0
       /\ fs = fs0

C2_Witness ==
    /\ Finished
    /\ WasRead
    /\ file_size = sram_size - 1
    /\ answer = << "Y" >>
    /\ success = "False"
    /\ save_data # << >>

(***************************************************************************)
(* C3: the confirmation is asked exactly when the size is not 131072; an   *)
(* answer that does not lower-case to 'y' ends the run with False and no   *)
(* file written; an answer that does, on an input of at least 32768 bytes, *)
(* lets the conversion write the first 32768 bytes.                        *)
(***************************************************************************)
C3_ConfirmOrAbort ==
    /\ prompts <= 1
    /\ (file_size >= 0 /\ pc # "size") => (prompts = 1 <=> file_size # DumpSize)
    /\ (Finished /\ prompts = 1 /\ answer \notin Yes)
       => (success = "False" /\ opens = 0 /\ fs = fs0)
    /\ (Finished /\ prompts = 1 /\ answer \in Yes /\ file_size >= sram_size)
       => /\ success = "True"
          /\ fs[out_path].exists
          /\ IsFirstBytes(fs[out_path].bytes, InputFile0.bytes, sram_size)

C3_Witness ==
    /\ Finished
    /\ prompts = 1
    /\ answer = << "Y" >>
    /\ file_size = 2 * sram_size
    /\ success = "True"

(***************************************************************************)
(* C4: detect_game_from_save returns the Zelda label when ZELDAZ lies      *)
(* entirely inside the first 1024 bytes, otherwise the Mario Golf label    *)
(* when 12 34 56 78 does, otherwise none; a marker at or across offset     *)
(* 1024 does not count.                                                    *)
(***************************************************************************)
C4_FirstMarkerInWindow ==
    pc = "classified"
    => detected_game =
         IF InWindow(ZELDAZ, save_data) THEN ZeldaLabel
         ELSE IF InWindow(MARIO, save_data) THEN GolfLabel
         ELSE None

\* both markers in the window, Mario Golf's first: the Zelda label wins
C4_Witness ==
    /\ pc = "classified"
    /\ ByteAt(save_data, 0) = MARIO[1]
    /\ InWindow(MARIO, save_data)
    /\ InWindow(ZELDAZ, save_data)
    /\ detected_game = ZeldaLabel

(***************************************************************************)
(* C5: the output file is opened at most once and only after the input was *)
(* read, the size accepted or confirmed and 32768 bytes extracted; a run   *)
(* that ends in an error leaves every file either as it was or complete.   *)
(***************************************************************************)
C5_NoPartialOutput ==
    /\ opens <= 1
    /\ opens = 1
       => /\ WasRead
          /\ file_size = DumpSize \/ answer \in Yes
          /\ BLen(save_data) = sram_size
    /\ (Finished /\ exit_code = 1)
       => \A p \in Paths :
             \/ fs[p] = fs0[p]
             \/ fs[p].exists /\ IsFirstBytes(fs[p].bytes, InputFile0.bytes, sram_size)

(***************************************************************************)
(* C6: the exit status is 0 exactly when the conversion succeeded and 1    *)
(* otherwise (no input path, missing input, refused confirmation, failed   *)
(* extraction), and status 0 means the output file was written.            *)
(***************************************************************************)
C6_ExitCode ==
    /\ ~Finished => exit_code = -1
    /\ Finished
       => /\ exit_code \in { 0, 1 }
          /\ exit_code = 0 <=> success = "True"
          /\ ~HasInput => exit_code = 1
          /\ (HasInput /\ ~InputFile0.exists) => exit_code = 1
          /\ (prompts = 1 /\ answer \notin Yes) => exit_code = 1
          /\ (WasRead /\ BLen(InputFile0.bytes) < sram_size) => exit_code = 1
          /\ exit_code = 0
             => /\ opens = 1
                /\ fs[out_path].exists
                /\ IsFirstBytes(fs[out_path].bytes, InputFile0.bytes, sram_size)

C6_Witness ==
    /\ Finished
    /\ exit_code = 0
    /\ success = "True"
    /\ prompts = 1

(***************************************************************************)
(* C7: the label and the fill ratio decide nothing: whether a run succeeds *)
(* is a function of the input's length and of the answer, and the bytes    *)
(* written are a function of the input's first 32768 bytes, so every input *)
(* of the same length and the same first 32768 bytes has the same result;  *)
(* 131072 zero bytes convert to 32768 zero bytes.                          *)
(***************************************************************************)
C7_InformationalOnly ==
    (Finished /\ WasRead)
    => /\ \A x \in Contents :
            (BLen(x) = BLen(InputFile0.bytes)
               /\ AgreeOn(x, InputFile0.bytes, Min(sram_size, BLen(x))))
            => /\ success = "True"
                  <=> /\ BLen(x) >= sram_size
                      /\ BLen(x) = DumpSize \/ answer \in Yes
               /\ success = "True"
                  => IsFirstBytes(fs[out_path].bytes, x, sram_size)
       /\ InputFile0.bytes = Rep(0, DumpSize)
          => /\ success = "True"
             /\ fs[out_path] = File(Rep(0, sram_size))

C7_Witness ==
    /\ Finished
    /\ WasRead
    /\ InputFile0.bytes = Rep(0, DumpSize)
    /\ empty_warning
    /\ detected_game = None
    /\ success = "True"

(***************************************************************************)
(* C8: the ratio is 100 * (bytes other than 0) / len(region): 0 for a      *)
(* region of zeros, 100 for a region without zeros, between 0 and 100      *)
(* always; the warning is printed exactly when no byte is other than 0.    *)
(***************************************************************************)
NonZeroBytes == BLen(save_data) - Occurrences(save_data, 0)

C8_FillRatio ==
    non_zero >= 0
    => /\ data_percentage.den = BLen(save_data)
       /\ data_percentage.den > 0
       /\ data_percentage.num = 100 * NonZeroBytes
       /\ NonZeroBytes = 0 => data_percentage.num = 0
       /\ NonZeroBytes = BLen(save_data)
            => data_percentage.num = 100 * data_percentage.den
       /\ 0 <= data_percentage.num
       /\ data_percentage.num <= 100 * data_percentage.den
       /\ empty_warning <=> NonZeroBytes = 0

C8_Witness ==
    /\ non_zero = Len(ZELDAZ)
    /\ ~empty_warning
    /\ data_percentage.num = 100 * Len(ZELDAZ)
    /\ data_percentage.den = sram_size

(***************************************************************************)
(* C9: without an output path the file is written where the input is, under*)
(* the input's name with its extension replaced by '.sav'; with an output  *)
(* path it is written there, and nowhere else.                             *)
(***************************************************************************)
DotsOf(name) == { i \in 1..Len(name) : name[i] = "." }

\* where the extension of name begins (its last dot, unless that dot is the
\* first or last character), Len(name) + 1 when it has none
ExtensionStart(name) ==
    IF \E i \in DotsOf(name) :
          /\ \A j \in DotsOf(name) : j <= i
          /\ 1 < i
          /\ i < Len(name)
    THEN CHOOSE i \in DotsOf(name) : \A j \in DotsOf(name) : j <= i
    ELSE Len(name) + 1

NameChosen == pc \in { "open", "write" } \/ success = "True"

C9_OutputPath ==
    /\ (NameChosen /\ Len(sys_argv) = 2)
       => /\ out_path.dir = InputPath.dir
          /\ out_path.name
               = SubSeq(InputPath.name, 1, ExtensionStart(InputPath.name) - 1)
                 \o << ".", "s", "a", "v" >>
    /\ (NameChosen /\ Len(sys_argv) > 2) => out_path = sys_argv[3]
    /\ (Finished /\ success = "True")
       => /\ fs[out_path] = File(save_data)
          /\ \A p \in Paths : p # out_path => fs[p] = fs0[p]

C9_Witness ==
    /\ Finished
    /\ success = "True"
    /\ Len(sys_argv) = 2
    /\ InputPath = Chars(<< "d.x" >>, << "g", ".", "a", ".", "f", "l", "a" >>)
    /\ out_path = Chars(<< "d.x" >>, << "g", ".", "a", ".", "s", "a", "v" >>)

(***************************************************************************)
(* C10: a run never changes the input file.                                *)
(***************************************************************************)
C10_InputUntouched ==
    HasInput => fs[InputPath] = fs0[InputPath]

====
